---- MODULE Spec2Model ----
(***************************************************************************)
(* The chat page's streaming-response consumer, sendMessage of             *)
(* static/js/index.js.  Text on the wire and in the page is a sequence of  *)
(* lexemes: the line break, the event prefix "data: ", the braces and      *)
(* members of a JSON object, and the characters of content fragments.      *)
(* A chunk boundary can fall between any two lexemes.                      *)
(***************************************************************************)
EXTENDS Integers, Sequences, FiniteSets, TLC

\* ---------------------------------------------------------------- bounds
\* The longest response body, in lines.
MaxLines == 2
\* The lines of the two response bodies together when two invocations overlap.
MaxOverlapLines == 2

\* ------------------------------------------------------- lexemes and text
NL == "\n"
Prefix == "data: "
LB == "{"
RB == "}"
Comma == ","
MemberA == "\"content\":\"a\""
MemberNl == "\"content\":\"\\n\""
MemberDone == "\"done\":true"
MemberError == "\"error\":true"
Garbage == "bad"

Members == {MemberA, MemberNl, MemberDone, MemberError}

StreamingId == "streaming-message"
ErrorMessage == "Sorry, I encountered an error. Please try again."
ConnectionMessage == "Connection error. Please check if the server is running."

\* The invocations of sendMessage the page can hold; invocation i is the
\* i-th call that passed the empty-message check.
Inv == {1, 2}

\* The lines a server response is made of: the event lines, a line whose
\* payload is not JSON, and the empty line that separates events.
ContentLineA == <<Prefix, LB, MemberA, RB>>
ContentLineNl == <<Prefix, LB, MemberNl, RB>>
DoneLine == <<Prefix, LB, MemberDone, RB>>
ErrorLine == <<Prefix, LB, MemberError, RB>>
ContentDoneLine == <<Prefix, LB, MemberA, Comma, MemberDone, RB>>
BadLine == <<Prefix, LB, Garbage>>
BlankLine == << >>

LineKinds ==
    {ContentLineA, ContentLineNl, DoneLine, ErrorLine, ContentDoneLine,
     BadLine, BlankLine}

RECURSIVE Bodies(_)
\* Every response body of at most n lines, each line ended by a line break.
Bodies(n) ==
    IF n = 0 THEN {<< >>}
    ELSE LET shorter == Bodies(n - 1)
         IN shorter \cup {b \o l \o <<NL>> : b \in shorter, l \in LineKinds}

Streams == Bodies(MaxLines)

\* ------------------------------------------------------- pure functions
RECURSIVE split(_)
\* chunk.split('\n'): the segments between line breaks, one more than the
\* number of line breaks.
split(chunk) ==
    IF \A k \in 1..Len(chunk) : chunk[k] # NL THEN <<chunk>>
    ELSE LET k == CHOOSE j \in 1..Len(chunk) :
                      chunk[j] = NL /\ \A m \in 1..(j - 1) : chunk[m] # NL
         IN <<SubSeq(chunk, 1, k - 1)>> \o split(SubSeq(chunk, k + 1, Len(chunk)))

\* line.startsWith('data: ')
startsWith(line) == Len(line) >= 1 /\ line[1] = Prefix

\* line.slice(6): the line without the six characters of the prefix.
slice(line) == SubSeq(line, 2, Len(line))

NoObject == [ok |-> FALSE, content |-> << >>, done |-> FALSE, error |-> FALSE]
EmptyObject == [ok |-> TRUE, content |-> << >>, done |-> FALSE, error |-> FALSE]

\* The object with one more member; a repeated key keeps the last value.
WithMember(obj, m) ==
    IF m = MemberA THEN [obj EXCEPT !.content = <<"a">>]
    ELSE IF m = MemberNl THEN [obj EXCEPT !.content = <<"\n">>]
    ELSE IF m = MemberDone THEN [obj EXCEPT !.done = TRUE]
    ELSE [obj EXCEPT !.error = TRUE]

RECURSIVE ParseMembers(_, _)
\* The members of an object after its opening brace: member ("," member)* "}".
ParseMembers(toks, obj) ==
    IF Len(toks) < 2 \/ toks[1] \notin Members THEN NoObject
    ELSE IF toks[2] = RB
         THEN IF Len(toks) = 2 THEN WithMember(obj, toks[1]) ELSE NoObject
    ELSE IF toks[2] = Comma
         THEN ParseMembers(SubSeq(toks, 3, Len(toks)), WithMember(obj, toks[1]))
    ELSE NoObject

\* JSON.parse of a payload: the object, or ok = FALSE where JSON.parse throws.
\* content << >> stands for a missing (or empty, equally falsy) content.
JSONparse(payload) ==
    IF Len(payload) < 2 \/ payload[1] # LB THEN NoObject
    ELSE IF payload = <<LB, RB>> THEN EmptyObject
    ELSE ParseMembers(SubSeq(payload, 2, Len(payload)), EmptyObject)

\* formatBotMessage: of its four replacements the texts of this model can
\* only trigger the last, a line break becomes <br> (they hold no '*', no
\* '[' and no digit).
formatBotMessage(text) ==
    [k \in 1..Len(text) |-> IF text[k] = "\n" THEN "<br>" ELSE text[k]]

\* A slip in the accumulation: fullText = data.content.
AppendContent_Replace(text, content) == content

\* fullText += data.content
AppendContent(text, content) == text \o content

\* document.getElementById(id): the first element of the document, in
\* document order, with this id; 0 when there is none (null).
getElementById(d, id) ==
    IF \E k \in 1..Len(d) : d[k].id = id
    THEN CHOOSE k \in 1..Len(d) : d[k].id = id /\ \A m \in 1..(k - 1) : d[m].id # id
    ELSE 0

\* ------------------------------------------------------------------ state
VARIABLES
    userInput,   \* userInput.value
    toType,      \* messages the user has yet to type
    dom,         \* the bot-message content elements of chatMessages, in order
    pc,          \* where each invocation stands
    stream,      \* the body the server answers each invocation with
    pos,         \* how much of the body the reader has delivered
    lines,       \* lines, the split of the chunk being processed
    idx,         \* the position of the for loop in lines
    fullText,    \* fullText
    contentDiv,  \* the element each invocation created (index into dom)
    events,      \* history: the objects JSON.parse returned, in order
    updates,     \* history: the display updates each invocation made
    finalizes    \* history: how often each invocation cleared the streaming id

chatVars == <<userInput, toType, dom, pc, stream, pos, lines, idx, fullText,
              contentDiv, events, updates, finalizes>>

\* ------------------------------------------------ the knowledge admin page
\* The most requests of one kind (list loads, statistics, uploads, deletes,
\* adds, edits) in flight at once.
MaxPending == 1

\* Two knowledge entries the server can list.  Field texts are sequences of
\* characters.
Entry1 == [id |-> 1, category |-> <<"F">>, question |-> <<"q">>,
           answer |-> <<"a">>, source |-> <<"s">>]
Entry2 == [id |-> 2, category |-> <<"L">>, question |-> <<"Q">>,
           answer |-> <<"f">>, source |-> <<"s">>]

\* What /get_knowledge can answer with.
ServerLists == {<< >>, <<Entry1>>, <<Entry2>>, <<Entry1, Entry2>>}

EntryIds == {Entry1.id, Entry2.id}

\* What the user can type into the search input, and the options of the
\* category select.
SearchTerms == {<< >>, <<"F">>, <<"a">>}
AllCategories == <<"all">>
CategoryOptions == {AllCategories, Entry1.category, Entry2.category}

\* String.prototype.toLowerCase, on the characters of this model.
toLowerCase(text) ==
    [k \in 1..Len(text) |->
        CASE text[k] = "F" -> "f"
          [] text[k] = "L" -> "l"
          [] text[k] = "Q" -> "q"
          [] OTHER -> text[k]]

\* String.prototype.includes
includes(text, part) ==
    \E k \in 0..(Len(text) - Len(part)) : SubSeq(text, k + 1, k + Len(part)) = part

\* The item matches the lower-cased search term in one of its four fields.
MatchesTerm(item, searchTerm) ==
    \/ includes(toLowerCase(item.question), searchTerm)
    \/ includes(toLowerCase(item.answer), searchTerm)
    \/ includes(toLowerCase(item.category), searchTerm)
    \/ includes(toLowerCase(item.source), searchTerm)

\* filtered of filterKnowledge: by category unless 'all', then by the search
\* term unless it is empty.
Filtered(all, searchValue, selectedCategory) ==
    LET searchTerm == toLowerCase(searchValue)
        byCategory == IF selectedCategory # AllCategories
                      THEN SelectSeq(all, LAMBDA item : item.category = selectedCategory)
                      ELSE all
    IN IF searchTerm # << >>
       THEN SelectSeq(byCategory, LAMBDA item : MatchesTerm(item, searchTerm))
       ELSE byCategory

\* displayKnowledge: the items shown (none shows the no-entries paragraph).
displayKnowledge(knowledge) == [state |-> "shown", items |-> knowledge]

\* The number of different categories of a list.
CategoryCount(knowledge) ==
    Cardinality({knowledge[k].category : k \in 1..Len(knowledge)})

VARIABLES
    page,            \* window.location: "admin", or "login" once redirected
    allKnowledge,    \* allKnowledge
    searchInput,     \* searchInput.value
    categoryFilter,  \* categoryFilter.value
    knowledgeList,   \* what knowledgeList shows
    filteredCount,   \* the number in filteredCount
    searchResults,   \* the count of the searchResults text, -1 for 'Showing all entries'
    totals,          \* the numbers in totalKnowledge and totalCategories
    loadPending,     \* fetches of loadKnowledge in flight
    statsPending,    \* fetches of updateStats in flight
    addPending,      \* fetches of the add form in flight
    editModal,       \* editModal is displayed
    editPending,     \* fetches of the edit form in flight
    csvFile,         \* csvFileInput holds a file
    uploadDisabled,  \* uploadBtn.disabled
    uploadPending,   \* fetches of the upload handler in flight
    deleteId,        \* deleteId, 0 for null
    deleteModal,     \* deleteModal is displayed
    deletePending    \* DELETE requests in flight, per entry id

knowledgeVars == <<allKnowledge, searchInput, categoryFilter, knowledgeList,
                   filteredCount, searchResults, totals>>
pendingVars == <<loadPending, statsPending>>
formVars == <<addPending, editModal, editPending>>
uploadVars == <<csvFile, uploadDisabled, uploadPending>>
deleteVars == <<deleteId, deleteModal, deletePending>>
adminVars == <<page, knowledgeVars, pendingVars, formVars, uploadVars, deleteVars>>

vars == <<chatVars, adminVars>>

\* The admin page once its script has run: nothing selected, nothing
\* listed yet, and the two fetches of its last two lines in flight.
InitAdminPage ==
    /\ page = "admin"
    /\ allKnowledge = << >>
    /\ searchInput = << >>
    /\ categoryFilter = AllCategories
    /\ knowledgeList = [state |-> "initial", items |-> << >>]
    /\ filteredCount = 0
    /\ searchResults = -1
    /\ totals = [knowledge |-> 0, categories |-> 0]
    /\ loadPending = 1
    /\ statsPending = 1
    /\ addPending = 0
    /\ editModal = FALSE
    /\ editPending = 0
    /\ csvFile = FALSE
    /\ uploadDisabled = TRUE
    /\ uploadPending = 0
    /\ deleteId = 0
    /\ deleteModal = FALSE
    /\ deletePending = [id \in EntryIds |-> 0]

\* ------------------------------------------------------- the chat page

\* The state of the page once the script has loaded, with n messages to come.
InitPage(n) ==
    /\ InitAdminPage
    /\ userInput = ""
    /\ toType = n
    /\ dom = << >>
    /\ pc = [i \in Inv |-> "idle"]
    /\ stream \in [Inv -> Streams]
    /\ \A i \in Inv : i > n => stream[i] = << >>
    /\ pos = [i \in Inv |-> 0]
    /\ lines = [i \in Inv |-> << >>]
    /\ idx = [i \in Inv |-> 0]
    /\ fullText = [i \in Inv |-> << >>]
    /\ contentDiv = [i \in Inv |-> 0]
    /\ events = [i \in Inv |-> << >>]
    /\ updates = [i \in Inv |-> << >>]
    /\ finalizes = [i \in Inv |-> 0]

Init == InitPage(1)

\* The content line of the responses to invocation i when invocations
\* overlap: each invocation is answered with fragments of its own.
OwnContentLine(i) == IF i = 1 THEN ContentLineA ELSE ContentLineNl

RECURSIVE OverlapBodies(_, _)
\* The bodies of at most n lines that answer invocation i when invocations
\* overlap: content, done and error events.
OverlapBodies(i, n) ==
    IF n = 0 THEN {<< >>}
    ELSE LET shorter == OverlapBodies(i, n - 1)
         IN shorter \cup {b \o l \o <<NL>> :
                             b \in shorter, l \in {OwnContentLine(i), DoneLine, ErrorLine}}

\* The page with two messages to come, the second of which can be sent
\* while the answer to the first is still streaming.
InitOverlap ==
    /\ InitAdminPage
    /\ userInput = ""
    /\ toType = 2
    /\ dom = << >>
    /\ pc = [i \in Inv |-> "idle"]
    /\ stream \in [Inv -> UNION {OverlapBodies(i, MaxOverlapLines) : i \in Inv}]
    /\ \A i \in Inv : stream[i] \in OverlapBodies(i, MaxOverlapLines)
    /\ Len(split(stream[1])) - 1 + Len(split(stream[2])) - 1 <= MaxOverlapLines
    /\ pos = [i \in Inv |-> 0]
    /\ lines = [i \in Inv |-> << >>]
    /\ idx = [i \in Inv |-> 0]
    /\ fullText = [i \in Inv |-> << >>]
    /\ contentDiv = [i \in Inv |-> 0]
    /\ events = [i \in Inv |-> << >>]
    /\ updates = [i \in Inv |-> << >>]
    /\ finalizes = [i \in Inv |-> 0]

\* JavaScript runs a handler to its next await before any other handler:
\* invocation i can take a step only when no other invocation is in the
\* middle of the lines of a chunk.
CanRun(i) == \A j \in Inv \ {i} : pc[j] # "line"

\* The line the for loop of invocation i is at, and its parsed payload.
Line(i) == lines[i][idx[i]]
Data(i) == JSONparse(slice(Line(i)))

\* contentDiv.innerHTML = html, by invocation i as an update of the given kind.
SetHTML(i, kind, html) ==
    /\ dom' = [dom EXCEPT ![contentDiv[i]].innerHTML = html]
    /\ updates' = [updates EXCEPT
                     ![i] = Append(@, [kind |-> kind, html |-> html,
                                        target |-> contentDiv[i]])]

\* The for loop moves to the next line, or, after the last one, the while
\* loop comes back to reader.read().
NextLine(i) ==
    IF idx[i] < Len(lines[i])
    THEN /\ idx' = [idx EXCEPT ![i] = @ + 1]
         /\ pc' = [pc EXCEPT ![i] = "line"]
    ELSE /\ idx' = idx
         /\ pc' = [pc EXCEPT ![i] = "read"]

\* A slip in the done check: the streaming id is never cleared.
CheckDone_Keep(i) ==
    /\ dom' = dom
    /\ finalizes' = finalizes

\* if (data.done) contentDiv.id = ''
CheckDone(i) ==
    IF Data(i).done
    THEN /\ dom' = [dom EXCEPT ![contentDiv[i]].id = ""]
         /\ finalizes' = [finalizes EXCEPT ![i] = @ + 1]
    ELSE /\ dom' = dom
         /\ finalizes' = finalizes

\* The catch block of sendMessage: the connection error goes to whatever
\* element carries the streaming id now, and to none when there is none.
Catch(i) ==
    LET streamingMsg == getElementById(dom, StreamingId)
    IN /\ pc' = [pc EXCEPT ![i] = "caught"]
       /\ IF streamingMsg # 0
          THEN /\ dom' = [dom EXCEPT ![streamingMsg].innerHTML =
                                       formatBotMessage(<<ConnectionMessage>>)]
               /\ updates' = [updates EXCEPT
                     ![i] = Append(@, [kind |-> "connection",
                                        html |-> formatBotMessage(<<ConnectionMessage>>),
                                        target |-> streamingMsg])]
          ELSE UNCHANGED <<dom, updates>>

\* ---------------------------------------------------------------- actions
\* The user types a message into the input.
TypeMessage ==
    /\ toType > 0
    /\ userInput = ""
    /\ \A j \in Inv : pc[j] # "line"
    /\ userInput' = "hi"
    /\ toType' = toType - 1
    /\ UNCHANGED <<dom, pc, stream, pos, lines, idx, fullText, contentDiv,
                   events, updates, finalizes>>
    /\ UNCHANGED adminVars

\* sendMessage up to its first await: an empty message returns at once (no
\* step), any other gets its placeholder element and its request.
Send(i) ==
    /\ pc[i] = "idle"
    /\ i = Len(dom) + 1
    /\ CanRun(i)
    /\ userInput # ""
    /\ userInput' = ""
    /\ dom' = Append(dom, [id |-> StreamingId, innerHTML |-> << >>])
    /\ contentDiv' = [contentDiv EXCEPT ![i] = Len(dom) + 1]
    /\ pc' = [pc EXCEPT ![i] = "fetch"]
    /\ UNCHANGED <<toType, stream, pos, lines, idx, fullText, events, updates,
                   finalizes>>
    /\ UNCHANGED adminVars

\* fetch resolves: the reader and the decoder are made, fullText is ''.
FetchResolve(i) ==
    /\ pc[i] = "fetch"
    /\ CanRun(i)
    /\ pc' = [pc EXCEPT ![i] = "read"]
    /\ fullText' = [fullText EXCEPT ![i] = << >>]
    /\ UNCHANGED <<userInput, toType, dom, stream, pos, lines, idx, contentDiv,
                   events, updates, finalizes>>
    /\ UNCHANGED adminVars

\* fetch rejects.
FetchReject(i) ==
    /\ pc[i] = "fetch"
    /\ CanRun(i)
    /\ Catch(i)
    /\ UNCHANGED <<userInput, toType, stream, pos, lines, idx, fullText,
                   contentDiv, events, finalizes>>
    /\ UNCHANGED adminVars

\* reader.read() resolves with a chunk: any non-empty piece of what is left
\* of the body.  The chunk is decoded and split into lines.
ReadChunk(i) ==
    /\ pc[i] = "read"
    /\ CanRun(i)
    /\ \E n \in 1..(Len(stream[i]) - pos[i]) :
          /\ lines' = [lines EXCEPT
                         ![i] = split(SubSeq(stream[i], pos[i] + 1, pos[i] + n))]
          /\ pos' = [pos EXCEPT ![i] = @ + n]
    /\ idx' = [idx EXCEPT ![i] = 1]
    /\ pc' = [pc EXCEPT ![i] = "line"]
    /\ UNCHANGED <<userInput, toType, dom, stream, fullText, contentDiv, events,
                   updates, finalizes>>
    /\ UNCHANGED adminVars

\* A slip at end-of-data: the element is emptied when the stream closes.
ReadDone_Clear(i) ==
    /\ pc[i] = "read"
    /\ CanRun(i)
    /\ pos[i] = Len(stream[i])
    /\ pc' = [pc EXCEPT ![i] = "done"]
    /\ dom' = [dom EXCEPT ![contentDiv[i]].innerHTML = << >>]
    /\ UNCHANGED <<userInput, toType, stream, pos, lines, idx, fullText,
                   contentDiv, events, updates, finalizes>>
    /\ UNCHANGED adminVars

\* reader.read() resolves with done: the while loop breaks and sendMessage
\* returns.
ReadDone(i) ==
    /\ pc[i] = "read"
    /\ CanRun(i)
    /\ pos[i] = Len(stream[i])
    /\ pc' = [pc EXCEPT ![i] = "done"]
    /\ UNCHANGED <<userInput, toType, dom, stream, pos, lines, idx, fullText,
                   contentDiv, events, updates, finalizes>>
    /\ UNCHANGED adminVars

\* reader.read() rejects.
ReadReject(i) ==
    /\ pc[i] = "read"
    /\ CanRun(i)
    /\ Catch(i)
    /\ UNCHANGED <<userInput, toType, stream, pos, lines, idx, fullText,
                   contentDiv, events, finalizes>>
    /\ UNCHANGED adminVars

\* A slip in the prefix check: a line without the prefix is parsed as it
\* stands, and a content member in it is appended and displayed.
IgnoreLine_Parse(i) ==
    /\ pc[i] = "line"
    /\ ~startsWith(Line(i))
    /\ IF JSONparse(Line(i)).content # << >>
       THEN /\ fullText' = [fullText EXCEPT
                              ![i] = AppendContent(@, JSONparse(Line(i)).content)]
            /\ SetHTML(i, "content", formatBotMessage(fullText'[i]))
       ELSE UNCHANGED <<fullText, dom, updates>>
    /\ NextLine(i)
    /\ UNCHANGED <<userInput, toType, stream, pos, lines, contentDiv, events,
                   finalizes>>
    /\ UNCHANGED adminVars

\* A line that does not start with the prefix.
IgnoreLine(i) ==
    /\ pc[i] = "line"
    /\ ~startsWith(Line(i))
    /\ NextLine(i)
    /\ UNCHANGED <<userInput, toType, dom, stream, pos, lines, fullText,
                   contentDiv, events, updates, finalizes>>
    /\ UNCHANGED adminVars

\* A slip in the parsing: no inner try, so that the exception of JSON.parse
\* reaches the catch block of sendMessage.
SkipInvalidJSON_Abort(i) ==
    /\ pc[i] = "line"
    /\ startsWith(Line(i))
    /\ ~Data(i).ok
    /\ Catch(i)
    /\ UNCHANGED <<userInput, toType, stream, pos, lines, idx, fullText,
                   contentDiv, events, finalizes>>
    /\ UNCHANGED adminVars

\* JSON.parse throws; the inner catch is empty.
SkipInvalidJSON(i) ==
    /\ pc[i] = "line"
    /\ startsWith(Line(i))
    /\ ~Data(i).ok
    /\ NextLine(i)
    /\ UNCHANGED <<userInput, toType, dom, stream, pos, lines, fullText,
                   contentDiv, events, updates, finalizes>>
    /\ UNCHANGED adminVars

\* A slip in the error branch: return instead of break, which ends the
\* invocation with the stream still open.
ErrorEvent_Return(i) ==
    /\ pc[i] = "line"
    /\ startsWith(Line(i))
    /\ Data(i).ok
    /\ Data(i).error
    /\ SetHTML(i, "error", formatBotMessage(<<ErrorMessage>>))
    /\ events' = [events EXCEPT ![i] = Append(@, Data(i))]
    /\ pc' = [pc EXCEPT ![i] = "done"]
    /\ UNCHANGED <<userInput, toType, stream, pos, lines, idx, fullText,
                   contentDiv, finalizes>>
    /\ UNCHANGED adminVars

\* An event with the error flag: the error message, then break, which leaves
\* the for loop (the rest of this chunk) and not the while loop.
ErrorEvent(i) ==
    /\ pc[i] = "line"
    /\ startsWith(Line(i))
    /\ Data(i).ok
    /\ Data(i).error
    /\ SetHTML(i, "error", formatBotMessage(<<ErrorMessage>>))
    /\ events' = [events EXCEPT ![i] = Append(@, Data(i))]
    /\ pc' = [pc EXCEPT ![i] = "read"]
    /\ UNCHANGED <<userInput, toType, stream, pos, lines, idx, fullText,
                   contentDiv, finalizes>>
    /\ UNCHANGED adminVars

\* A slip in the pacing: no await after the display update, the done check
\* and the next line follow in the same run.
ContentEvent_NoDelay(i) ==
    /\ pc[i] = "line"
    /\ startsWith(Line(i))
    /\ Data(i).ok
    /\ ~Data(i).error
    /\ Data(i).content # << >>
    /\ fullText' = [fullText EXCEPT ![i] = AppendContent(@, Data(i).content)]
    /\ updates' = [updates EXCEPT
                     ![i] = Append(@, [kind |-> "content",
                                        html |-> formatBotMessage(fullText'[i]),
                                        target |-> contentDiv[i]])]
    /\ dom' = [dom EXCEPT
                 ![contentDiv[i]] = [id |-> IF Data(i).done THEN "" ELSE @.id,
                                     innerHTML |-> formatBotMessage(fullText'[i])]]
    /\ finalizes' = [finalizes EXCEPT ![i] = IF Data(i).done THEN @ + 1 ELSE @]
    /\ events' = [events EXCEPT ![i] = Append(@, Data(i))]
    /\ NextLine(i)
    /\ UNCHANGED <<userInput, toType, stream, pos, lines, contentDiv>>
    /\ UNCHANGED adminVars

\* An event with content: append, display, and await the paced delay.
ContentEvent(i) ==
    /\ pc[i] = "line"
    /\ startsWith(Line(i))
    /\ Data(i).ok
    /\ ~Data(i).error
    /\ Data(i).content # << >>
    /\ fullText' = [fullText EXCEPT ![i] = AppendContent(@, Data(i).content)]
    /\ SetHTML(i, "content", formatBotMessage(fullText'[i]))
    /\ events' = [events EXCEPT ![i] = Append(@, Data(i))]
    /\ pc' = [pc EXCEPT ![i] = "delay"]
    /\ UNCHANGED <<userInput, toType, stream, pos, lines, idx, contentDiv,
                   finalizes>>
    /\ UNCHANGED adminVars

\* The paced delay elapses: the rest of the loop body (the done check), then
\* the next line.
Resume(i) ==
    /\ pc[i] = "delay"
    /\ CanRun(i)
    /\ CheckDone(i)
    /\ NextLine(i)
    /\ UNCHANGED <<userInput, toType, stream, pos, lines, fullText, contentDiv,
                   events, updates>>
    /\ UNCHANGED adminVars

\* A slip in the done branch: the done event returns from sendMessage with
\* the stream still open.
PlainEvent_Return(i) ==
    /\ pc[i] = "line"
    /\ startsWith(Line(i))
    /\ Data(i).ok
    /\ ~Data(i).error
    /\ Data(i).content = << >>
    /\ CheckDone(i)
    /\ events' = [events EXCEPT ![i] = Append(@, Data(i))]
    /\ IF Data(i).done
       THEN pc' = [pc EXCEPT ![i] = "done"] /\ idx' = idx
       ELSE NextLine(i)
    /\ UNCHANGED <<userInput, toType, stream, pos, lines, fullText, contentDiv,
                   updates>>
    /\ UNCHANGED adminVars

\* An event with neither error nor content: only the done check.
PlainEvent(i) ==
    /\ pc[i] = "line"
    /\ startsWith(Line(i))
    /\ Data(i).ok
    /\ ~Data(i).error
    /\ Data(i).content = << >>
    /\ CheckDone(i)
    /\ events' = [events EXCEPT ![i] = Append(@, Data(i))]
    /\ NextLine(i)
    /\ UNCHANGED <<userInput, toType, stream, pos, lines, fullText, contentDiv,
                   updates>>
    /\ UNCHANGED adminVars

Next ==
    \/ TypeMessage
    \/ \E i \in Inv :
          \/ Send(i)
          \/ FetchResolve(i)
          \/ FetchReject(i)
          \/ ReadChunk(i)
          \/ ReadDone(i)
          \/ ReadReject(i)
          \/ IgnoreLine(i)
          \/ SkipInvalidJSON(i)
          \/ ErrorEvent(i)
          \/ ContentEvent(i)
          \/ Resume(i)
          \/ PlainEvent(i)

Spec == Init /\ [][Next]_vars

\* The event loop runs every continuation that is ready: a pending fetch or
\* read settles (the stream is finite and closes), the lines of a chunk are
\* processed, and the timer of a paced delay fires.
Fairness(i) ==
    /\ WF_vars(FetchResolve(i) \/ FetchReject(i))
    /\ WF_vars(ReadChunk(i) \/ ReadDone(i) \/ ReadReject(i))
    /\ WF_vars(IgnoreLine(i) \/ SkipInvalidJSON(i) \/ ErrorEvent(i)
                  \/ ContentEvent(i) \/ PlainEvent(i))
    /\ WF_vars(Resume(i))

SpecFair == Init /\ [][Next]_vars /\ \A i \in Inv : Fairness(i)

SpecOverlap == InitOverlap /\ [][Next]_vars

\* ------------------------------------------------- what the claims speak of
\* The text invocation i displays: the innerHTML of the element it created.
Display(i) == dom[contentDiv[i]].innerHTML

\* The complete lines of a piece of a body: what stands before each line break.
CompleteLines(body) == SubSeq(split(body), 1, Len(split(body)) - 1)

\* What invocation i has been handed of its body so far.
Delivered(i) == SubSeq(stream[i], 1, pos[i])

\* The reader stands right after a line break, or at the start of the body.
AtLineBreak(i) == pos[i] = 0 \/ stream[i][pos[i]] = NL

IsPrefix(s, t) == Len(s) <= Len(t) /\ s = SubSeq(t, 1, Len(s))

IsEventLine(line) == startsWith(line) /\ JSONparse(slice(line)).ok

RECURSIVE EventsOf(_)
\* The events of a sequence of lines, in order.
EventsOf(ls) ==
    IF ls = << >> THEN << >>
    ELSE (IF IsEventLine(Head(ls)) THEN <<JSONparse(slice(Head(ls)))>> ELSE << >>)
         \o EventsOf(Tail(ls))

RECURSIVE ContentOf(_)
\* The content fragments of a sequence of events, concatenated in order.
ContentOf(evs) ==
    IF evs = << >> THEN << >> ELSE Head(evs).content \o ContentOf(Tail(evs))

NoErrorLine(ls) == \A k \in 1..Len(ls) : ~(IsEventLine(ls[k]) /\ JSONparse(slice(ls[k])).error)

\* A body of well-formed event lines, none of them an error event.
WellFormed(body) ==
    /\ NoErrorLine(CompleteLines(body))
    /\ \A k \in 1..Len(CompleteLines(body)) : IsEventLine(CompleteLines(body)[k])

\* The updates of one kind among the display updates of invocation i.
UpdatesOfKind(i, kind) == SelectSeq(updates[i], LAMBDA u : u.kind = kind)

ErrorProcessed(i) == UpdatesOfKind(i, "error") # << >>

\* C1: for a body of well-formed event lines without error events, however
\* it is cut into chunks, the text displayed when the read loop has ended is
\* the concatenation of all content fragments of the body, in order.
C1_FinalTextIsAllContent ==
    \A i \in Inv :
        (pc[i] = "done" /\ WellFormed(stream[i]))
            => Display(i) = formatBotMessage(ContentOf(EventsOf(CompleteLines(stream[i]))))

\* C2: once an error event has been processed, the display shows exactly the
\* error message until the invocation ends; no later content event changes it.
C2_ErrorMessageStays ==
    \A i \in Inv :
        (ErrorProcessed(i) /\ pc[i] # "caught")
            => Display(i) = formatBotMessage(<<ErrorMessage>>)

\* C3: the trailing incomplete segment of a chunk is carried over to the
\* next chunk.  In a body without error events, whenever the consumer is
\* back at reader.read() the events it has parsed are events of the body in
\* order (a piece of a line yields none), and when the chunks so far end at
\* a line break they are exactly the events of the lines delivered: each
\* event line yields one event, also when a chunk boundary fell inside it.
C3_SplitLineParsedOnce ==
    \A i \in Inv :
        (pc[i] \in {"read", "done"} /\ NoErrorLine(CompleteLines(stream[i])))
            => /\ IsPrefix(events[i], EventsOf(CompleteLines(stream[i])))
               /\ AtLineBreak(i) => events[i] = EventsOf(CompleteLines(Delivered(i)))

\* C4: whenever fetch or reader.read() rejects, also after a done event, the
\* display of the invocation is updated exactly once with the
\* connection-error message and the invocation ends.
C4_FailureShownOnce ==
    \A i \in Inv :
        pc[i] = "caught"
            => /\ Len(UpdatesOfKind(i, "connection")) = 1
               /\ Display(i) = formatBotMessage(<<ConnectionMessage>>)

\* The line the for loop of invocation i is at is a malformed event line.
AtMalformedLine(i) == pc[i] = "line" /\ startsWith(Line(i)) /\ ~Data(i).ok

\* C5: a line that begins with the prefix but whose payload is not valid
\* JSON changes neither the accumulated text nor the display, surfaces no
\* error and does not stop the stream: the loop goes on with the next line
\* of the chunk, or with the next read after the last line.
C5_MalformedLineSkipped ==
    [][\A i \in Inv :
          AtMalformedLine(i)
              => /\ fullText' = fullText
                 /\ dom' = dom
                 /\ updates' = updates
                 /\ events' = events
                 /\ IF idx[i] < Len(lines[i])
                    THEN pc'[i] = "line" /\ idx'[i] = idx[i] + 1 /\ lines' = lines
                    ELSE pc'[i] = "read"]_vars

\* C5, its case: a malformed line followed by a content line "a", read to the
\* end, displays "a".
C5_Witness ==
    /\ pc[1] = "done"
    /\ stream[1] = BadLine \o <<NL>> \o ContentLineA \o <<NL>>
    /\ Display(1) = <<"a">>
    /\ Len(updates[1]) = 1

\* Invocation i is about to run the done check of an event with the done flag.
AtDoneCheck(i) ==
    \/ pc[i] = "line" /\ IsEventLine(Line(i)) /\ ~Data(i).error
          /\ Data(i).content = << >> /\ Data(i).done
    \/ pc[i] = "delay" /\ Data(i).done

\* Invocation i is about to process a content event.
AtContentEvent(i) ==
    pc[i] = "line" /\ IsEventLine(Line(i)) /\ ~Data(i).error /\ Data(i).content # << >>

\* C6: a done event clears the streaming marker and does not end the read
\* loop: the loop ends only when the stream reports end-of-data, and a
\* content event after the done event is still appended and displayed.
C6_DoneDoesNotEndLoop ==
    [][\A i \in Inv :
          /\ (AtDoneCheck(i) /\ pc'[i] # pc[i])
                => dom'[contentDiv[i]].id = "" /\ pc'[i] \in {"line", "read"}
          /\ (AtContentEvent(i) /\ finalizes[i] > 0)
                => /\ fullText'[i] = fullText[i] \o Data(i).content
                   /\ dom'[contentDiv[i]].innerHTML = formatBotMessage(fullText'[i])
          /\ (finalizes[i] > 0 /\ pc[i] # "done" /\ pc'[i] = "done")
                => pc[i] = "read" /\ pos[i] = Len(stream[i])]_vars

\* C6, its case: a done event, then a content event that is displayed.
C6_Witness ==
    /\ pc[1] = "done"
    /\ finalizes[1] = 1
    /\ dom[contentDiv[1]].id = ""
    /\ Len(events[1]) = 2 /\ events[1][1].done /\ events[1][2].content = <<"a">>
    /\ Display(1) = <<"a">>

\* A body of content events followed by one done event.
ContentThenDone(body) ==
    LET ls == CompleteLines(body)
    IN /\ Len(ls) >= 1
       /\ ls[Len(ls)] = DoneLine
       /\ \A k \in 1..(Len(ls) - 1) : ls[k] \in {ContentLineA, ContentLineNl}

\* C7: for a body of content events followed by one done event, read to the
\* end without a failure, the display took each successive concatenation of
\* the fragments in order and nothing else (no error message, no
\* connection-error message), and the finalize effect happened exactly once.
C7_ContentThenDoneProgression ==
    \A i \in Inv :
        (pc[i] = "done" /\ ContentThenDone(stream[i]))
            => LET frags == EventsOf(CompleteLines(stream[i]))
               IN /\ Len(updates[i]) = Len(frags) - 1
                  /\ \A k \in 1..Len(updates[i]) :
                        /\ updates[i][k].kind = "content"
                        /\ updates[i][k].html =
                              formatBotMessage(ContentOf(SubSeq(frags, 1, k)))
                  /\ finalizes[i] = 1

\* The content events invocation i has processed.
ContentEvents(i) ==
    SelectSeq(events[i], LAMBDA e : ~e.error /\ e.content # << >>)

\* The k-th content update shows the first k content fragments processed.
ContentUpdatesInOrder(i) ==
    LET shown == UpdatesOfKind(i, "content")
    IN /\ Len(shown) = Len(ContentEvents(i))
       /\ \A k \in 1..Len(shown) :
             shown[k].html = formatBotMessage(ContentOf(SubSeq(ContentEvents(i), 1, k)))

\* C8: within one invocation the accumulated text is append-only (each
\* value is a prefix of the next, hence of every later one) and the k-th
\* content display update shows the concatenation of the first k content
\* fragments processed, as formatBotMessage renders it.
C8_AppendOnlyInOrder ==
    /\ [](\A i \in Inv : ContentUpdatesInOrder(i))
    /\ [][\A i \in Inv : IsPrefix(fullText[i], fullText'[i])]_vars

\* C8, its case: two different fragments were appended and displayed.
C8_Witness ==
    /\ fullText[1] = <<"a", "\n">>
    /\ Len(UpdatesOfKind(1, "content")) = 2
    /\ Display(1) = <<"a", "<br>">>

\* Invocation i is about to process an event with the error flag.
AtErrorEvent(i) == pc[i] = "line" /\ IsEventLine(Line(i)) /\ Data(i).error

\* C9: an in-band error event is not treated as a transport failure and does
\* not end the read loop: it shows the error message and not the
\* connection-error message and goes back to reader.read(); after it the
\* invocation ends only when the stream reports end-of-data or a read fails.
C9_ErrorEventKeepsReading ==
    [][\A i \in Inv :
          /\ AtErrorEvent(i)
                => /\ pc'[i] = "read"
                   /\ updates'[i] = Append(updates[i],
                         [kind |-> "error",
                          html |-> formatBotMessage(<<ErrorMessage>>),
                          target |-> contentDiv[i]])
          /\ (ErrorProcessed(i) /\ pc[i] # "done" /\ pc'[i] = "done")
                => pc[i] = "read" /\ pos[i] = Len(stream[i])
          /\ (ErrorProcessed(i) /\ pc[i] # "caught" /\ pc'[i] = "caught")
                => pc[i] = "read"]_vars

\* C9, its case: an error event, a further chunk read and processed after
\* it, and the loop ended by end-of-data without a connection error.
C9_Witness ==
    /\ pc[1] = "done"
    /\ Len(events[1]) = 2 /\ events[1][1].error
    /\ UpdatesOfKind(1, "connection") = << >>

\* What the last display update of invocation i set, '' before the first.
LastShown(i) ==
    IF updates[i] = << >> THEN << >> ELSE updates[i][Len(updates[i])].html

\* C10: when the stream reports end-of-data and no done event has arrived,
\* the step that ends the loop updates and clears nothing: the display is
\* what the last display update set.
C10_EndOfStreamKeepsDisplay ==
    [][\A i \in Inv :
          (pc[i] = "read" /\ pc'[i] = "done" /\ finalizes[i] = 0)
              => /\ dom' = dom
                 /\ updates' = updates
                 /\ dom'[contentDiv[i]].innerHTML = LastShown(i)]_vars

\* C10, its case: a stream that displayed content and ended without done.
C10_Witness ==
    /\ pc[1] = "done"
    /\ finalizes[1] = 0
    /\ \A k \in 1..Len(events[1]) : ~events[1][k].done
    /\ Display(1) = <<"a", "<br>">>

\* C11: processing a line that does not begin with the prefix 'data: '
\* leaves the accumulated text, the displayed text and the streaming marker
\* unchanged.
C11_UnprefixedLineIgnored ==
    [][\A i \in Inv :
          (pc[i] = "line" /\ ~startsWith(Line(i)))
              => /\ fullText' = fullText
                 /\ dom' = dom
                 /\ updates' = updates
                 /\ finalizes' = finalizes]_vars

\* C11, its case: an empty line was processed after a content line, and the
\* display and the marker are as the content line left them.
C11_Witness ==
    /\ pc[1] = "done"
    /\ stream[1] = ContentLineA \o <<NL>> \o BlankLine \o <<NL>>
    /\ Display(1) = <<"a">>
    /\ dom[contentDiv[1]].id = StreamingId

Terminal == {"done", "caught"}

\* C12: the read loop ends exactly when the stream reports no more data or a
\* read fails.  Once the request is out, the invocation eventually
\* terminates (the stream is finite and every paced delay elapses), and the
\* step that ends it is reader.read() reporting end-of-data, a rejected read
\* or the rejected fetch, never a done event, an error event or a malformed
\* line.
C12_EndsExactlyAtEndOfData ==
    /\ \A i \in Inv : (pc[i] = "fetch") ~> (pc[i] \in Terminal)
    /\ [][\A i \in Inv :
             (pc[i] \notin Terminal /\ pc'[i] \in Terminal)
                 => \/ pc[i] = "read" /\ pc'[i] = "done" /\ pos[i] = Len(stream[i])
                    \/ pc[i] = "read" /\ pc'[i] = "caught"
                    \/ pc[i] = "fetch" /\ pc'[i] = "caught"]_vars

\* C12, its case: a stream with a done event and an error event was read to
\* its end.
C12_Witness ==
    /\ pc[1] = "done"
    /\ pos[1] = Len(stream[1])
    /\ Len(events[1]) = 2 /\ events[1][1].done /\ events[1][2].error

\* What belongs to invocation j alone: its position and its local variables.
Local(j) ==
    <<pc[j], pos[j], lines[j], idx[j], fullText[j], contentDiv[j], events[j],
      updates[j], finalizes[j]>>

\* C13: after a content fragment is appended and displayed the consumer
\* suspends for the paced delay before it processes the next line; while it
\* is suspended other handlers (a second sendMessage, the reads of another
\* invocation) can run; and while it is between two suspension points, in
\* the lines of a chunk, no step of another handler is interleaved.
C13_PacedDelayIsYieldPoint ==
    /\ [][\A i \in Inv :
             /\ AtContentEvent(i)
                   => pc'[i] = "delay" /\ idx'[i] = idx[i] /\ lines'[i] = lines[i]
             /\ pc[i] = "line"
                   => /\ \A j \in Inv \ {i} : Local(j)' = Local(j)
                      /\ userInput' = userInput
                      /\ Len(dom') = Len(dom)]_vars
    /\ [](\A i \in Inv : \A j \in Inv \ {i} :
             pc[i] = "delay"
                 => /\ (pc[j] = "idle" /\ userInput # "" /\ j = Len(dom) + 1)
                          => ENABLED Send(j)
                    /\ pc[j] = "read" => ENABLED ReadChunk(j) \/ pos[j] = Len(stream[j])
                    /\ pc[j] = "delay" => ENABLED Resume(j))

\* C13, its case: both invocations are suspended in a paced delay, so one of
\* them read and displayed a fragment while the other was suspended.
C13_Witness ==
    /\ pc[1] = "delay" /\ pc[2] = "delay"
    /\ Display(1) = <<"a">> /\ Display(2) = <<"<br>">>

\* The fragment the responses to invocation i are made of when invocations
\* overlap.
OwnFragment(i) == OwnContentLine(i)[3]

\* C14: when invocations overlap, every display update of an invocation
\* (content, error message, connection-error message) goes to the element
\* this invocation created, and its accumulated text holds only fragments of
\* its own stream.
C14_UpdatesStayWithOwnElement ==
    \A i \in Inv :
        /\ \A k \in 1..Len(updates[i]) : updates[i][k].target = contentDiv[i]
        /\ \A k \in 1..Len(fullText[i]) :
              fullText[i][k] = WithMember(EmptyObject, OwnFragment(i)).content[1]

\* ---------------------------------------- the admin page: its handlers
InitAdmin == InitPage(0)

\* Once the page has been sent to the login page its handlers are gone.
Active == page = "admin"

\* loadKnowledge(); updateStats(): each starts a fetch.
CanReload == loadPending < MaxPending /\ statsPending < MaxPending
Reload ==
    /\ loadPending' = loadPending + 1
    /\ statsPending' = statsPending + 1

\* filterKnowledge with the given values of the search input and the select.
FilterKnowledge(searchValue, selectedCategory) ==
    LET filtered == Filtered(allKnowledge, searchValue, selectedCategory)
    IN /\ knowledgeList' = displayKnowledge(filtered)
       /\ searchResults' = IF toLowerCase(searchValue) = << >>
                                /\ selectedCategory = AllCategories
                            THEN -1 ELSE Len(filtered)
       /\ filteredCount' = Len(filtered)

\* The user edits the search input: the input listener runs filterKnowledge.
InputSearch ==
    /\ Active
    /\ \E t \in SearchTerms \ {searchInput} :
          /\ searchInput' = t
          /\ FilterKnowledge(t, categoryFilter)
    /\ UNCHANGED <<page, allKnowledge, categoryFilter, totals, pendingVars,
                   formVars, uploadVars, deleteVars, chatVars>>

\* The user picks a category: the select runs filterKnowledge.
ChangeCategory ==
    /\ Active
    /\ \E c \in CategoryOptions \ {categoryFilter} :
          /\ categoryFilter' = c
          /\ FilterKnowledge(searchInput, c)
    /\ UNCHANGED <<page, allKnowledge, searchInput, totals, pendingVars,
                   formVars, uploadVars, deleteVars, chatVars>>

\* clearSearch
ClearSearch ==
    /\ Active
    /\ searchInput' = << >>
    /\ categoryFilter' = AllCategories
    /\ FilterKnowledge(<< >>, AllCategories)
    /\ UNCHANGED <<page, allKnowledge, totals, pendingVars, formVars,
                   uploadVars, deleteVars, chatVars>>

\* switchTab('view'): loadKnowledge starts its fetch.
SwitchToViewTab ==
    /\ Active
    /\ loadPending < MaxPending
    /\ loadPending' = loadPending + 1
    /\ UNCHANGED <<page, knowledgeVars, statsPending, formVars, uploadVars,
                   deleteVars, chatVars>>

\* loadKnowledge, its fetch answered with a JSON list: the list is stored
\* and displayed whole, and its length is the filtered count.
LoadOk ==
    /\ Active
    /\ loadPending > 0
    /\ loadPending' = loadPending - 1
    /\ \E list \in ServerLists :
          /\ allKnowledge' = list
          /\ knowledgeList' = displayKnowledge(list)
          /\ filteredCount' = Len(list)
    /\ UNCHANGED <<page, searchInput, categoryFilter, searchResults, totals,
                   statsPending, formVars, uploadVars, deleteVars, chatVars>>

\* loadKnowledge, its fetch redirected to the login page.
LoadRedirect ==
    /\ Active
    /\ loadPending > 0
    /\ loadPending' = loadPending - 1
    /\ page' = "login"
    /\ UNCHANGED <<knowledgeVars, statsPending, formVars, uploadVars,
                   deleteVars, chatVars>>

\* loadKnowledge, its fetch answered with something that is not JSON.
LoadNotJson ==
    /\ Active
    /\ loadPending > 0
    /\ loadPending' = loadPending - 1
    /\ page' = "login"
    /\ UNCHANGED <<knowledgeVars, statsPending, formVars, uploadVars,
                   deleteVars, chatVars>>

\* loadKnowledge, its fetch or response.json() rejected: the error paragraph.
LoadFail ==
    /\ Active
    /\ loadPending > 0
    /\ loadPending' = loadPending - 1
    /\ knowledgeList' = [state |-> "error", items |-> << >>]
    /\ UNCHANGED <<page, allKnowledge, searchInput, categoryFilter,
                   filteredCount, searchResults, totals, statsPending, formVars,
                   uploadVars, deleteVars, chatVars>>

\* updateStats, its fetch answered with a JSON list: the totals, and the
\* length of that list as the filtered count.
StatsOk ==
    /\ Active
    /\ statsPending > 0
    /\ statsPending' = statsPending - 1
    /\ \E knowledge \in ServerLists :
          /\ totals' = [knowledge |-> Len(knowledge),
                        categories |-> CategoryCount(knowledge)]
          /\ filteredCount' = Len(knowledge)
    /\ UNCHANGED <<page, allKnowledge, searchInput, categoryFilter,
                   knowledgeList, searchResults, loadPending, formVars,
                   uploadVars, deleteVars, chatVars>>

\* updateStats, its fetch redirected to the login page.
StatsRedirect ==
    /\ Active
    /\ statsPending > 0
    /\ statsPending' = statsPending - 1
    /\ page' = "login"
    /\ UNCHANGED <<knowledgeVars, loadPending, formVars, uploadVars,
                   deleteVars, chatVars>>

\* updateStats, its fetch answered with something that is not JSON, or
\* rejected: nothing is shown.
StatsDropped ==
    /\ Active
    /\ statsPending > 0
    /\ statsPending' = statsPending - 1
    /\ UNCHANGED <<page, knowledgeVars, loadPending, formVars, uploadVars,
                   deleteVars, chatVars>>

\* The add form is submitted.
AddSubmit ==
    /\ Active
    /\ addPending < MaxPending
    /\ addPending' = addPending + 1
    /\ UNCHANGED <<page, knowledgeVars, pendingVars, editModal, editPending,
                   uploadVars, deleteVars, chatVars>>

\* The add request succeeded: the list and the statistics are reloaded.
AddOk ==
    /\ Active
    /\ addPending > 0
    /\ CanReload
    /\ addPending' = addPending - 1
    /\ Reload
    /\ UNCHANGED <<page, knowledgeVars, editModal, editPending, uploadVars,
                   deleteVars, chatVars>>

\* The add request was answered not ok, or rejected: a message only.
AddRejected ==
    /\ Active
    /\ addPending > 0
    /\ addPending' = addPending - 1
    /\ UNCHANGED <<page, knowledgeVars, pendingVars, editModal, editPending,
                   uploadVars, deleteVars, chatVars>>

\* The add request was redirected to the login page.
AddRedirect ==
    /\ Active
    /\ addPending > 0
    /\ addPending' = addPending - 1
    /\ page' = "login"
    /\ UNCHANGED <<knowledgeVars, pendingVars, editModal, editPending,
                   uploadVars, deleteVars, chatVars>>

\* The ids of the entries the list shows, each with its two buttons.
ShownIds == {knowledgeList.items[k].id : k \in 1..Len(knowledgeList.items)}

\* openEditModal(id), from the edit button of a shown entry: the modal opens
\* when allKnowledge holds the entry.
OpenEditModal ==
    /\ Active
    /\ \E id \in ShownIds : \E k \in 1..Len(allKnowledge) : allKnowledge[k].id = id
    /\ editModal' = TRUE
    /\ UNCHANGED <<page, knowledgeVars, pendingVars, addPending, editPending,
                   uploadVars, deleteVars, chatVars>>

\* closeEditModal
CloseEditModal ==
    /\ Active
    /\ editModal
    /\ editModal' = FALSE
    /\ UNCHANGED <<page, knowledgeVars, pendingVars, addPending, editPending,
                   uploadVars, deleteVars, chatVars>>

\* The edit form, which is inside the modal, is submitted.
EditSubmit ==
    /\ Active
    /\ editModal
    /\ editPending < MaxPending
    /\ editPending' = editPending + 1
    /\ UNCHANGED <<page, knowledgeVars, pendingVars, addPending, editModal,
                   uploadVars, deleteVars, chatVars>>

\* The update request succeeded: the modal closes, list and statistics reload.
EditOk ==
    /\ Active
    /\ editPending > 0
    /\ CanReload
    /\ editPending' = editPending - 1
    /\ editModal' = FALSE
    /\ Reload
    /\ UNCHANGED <<page, knowledgeVars, addPending, uploadVars, deleteVars,
                   chatVars>>

\* The update request was answered not ok, or rejected: an alert only.
EditRejected ==
    /\ Active
    /\ editPending > 0
    /\ editPending' = editPending - 1
    /\ UNCHANGED <<page, knowledgeVars, pendingVars, addPending, editModal,
                   uploadVars, deleteVars, chatVars>>

\* The update request was redirected to the login page.
EditRedirect ==
    /\ Active
    /\ editPending > 0
    /\ editPending' = editPending - 1
    /\ page' = "login"
    /\ UNCHANGED <<knowledgeVars, pendingVars, addPending, editModal,
                   uploadVars, deleteVars, chatVars>>

\* The knowledge list with its search, and the two forms that reload it.
NextKnowledge ==
    \/ InputSearch
    \/ ChangeCategory
    \/ ClearSearch
    \/ SwitchToViewTab
    \/ LoadOk
    \/ LoadRedirect
    \/ LoadNotJson
    \/ LoadFail
    \/ StatsOk
    \/ StatsRedirect
    \/ StatsDropped
    \/ AddSubmit
    \/ AddOk
    \/ AddRejected
    \/ AddRedirect
    \/ OpenEditModal
    \/ CloseEditModal
    \/ EditSubmit
    \/ EditOk
    \/ EditRejected
    \/ EditRedirect

SpecKnowledge == InitAdmin /\ [][NextKnowledge]_vars

\* C15: after any completions of loadKnowledge, filterKnowledge, clearSearch
\* and updateStats, the entries displayed and the filtered count are those
\* of allKnowledge that have the selected category (any, for 'all') and
\* contain the lower-cased search term in one of their four fields; a reload
\* while a term or a category is set keeps the list filtered.
C15_DisplayedListIsFiltered ==
    (Active /\ knowledgeList.state = "shown")
        => /\ knowledgeList.items = Filtered(allKnowledge, searchInput, categoryFilter)
           /\ filteredCount = Len(Filtered(allKnowledge, searchInput, categoryFilter))

\* ------------------------------------------------------ the CSV upload
\* The change listener of the file input, a file chosen.
SelectFile ==
    /\ Active
    /\ csvFile' = TRUE
    /\ uploadDisabled' = FALSE
    /\ UNCHANGED <<page, knowledgeVars, pendingVars, formVars, uploadPending,
                   deleteVars, chatVars>>

\* The change listener of the file input, the choice withdrawn.
UnselectFile ==
    /\ Active
    /\ csvFile
    /\ csvFile' = FALSE
    /\ uploadDisabled' = TRUE
    /\ UNCHANGED <<page, knowledgeVars, pendingVars, formVars, uploadPending,
                   deleteVars, chatVars>>

\* The click listener of the upload button up to its fetch: a disabled
\* button gets no click, and without a file the listener returns at once.
ClickUpload ==
    /\ Active
    /\ ~uploadDisabled
    /\ csvFile
    /\ uploadPending < MaxPending
    /\ uploadDisabled' = TRUE
    /\ uploadPending' = uploadPending + 1
    /\ UNCHANGED <<page, knowledgeVars, pendingVars, formVars, csvFile,
                   deleteVars, chatVars>>

\* The finally block of the click listener: uploadBtn.disabled = false.
UploadFinally == uploadDisabled' = FALSE

\* The upload succeeded: the input is emptied and the button disabled, list
\* and statistics are reloaded, and then the finally block runs.
UploadOk ==
    /\ Active
    /\ uploadPending > 0
    /\ CanReload
    /\ uploadPending' = uploadPending - 1
    /\ csvFile' = FALSE
    /\ Reload
    /\ UploadFinally
    /\ UNCHANGED <<page, knowledgeVars, formVars, deleteVars, chatVars>>

\* The upload was answered not ok, or the fetch or response.json() rejected:
\* a message, then the finally block.
UploadRejected ==
    /\ Active
    /\ uploadPending > 0
    /\ uploadPending' = uploadPending - 1
    /\ UploadFinally
    /\ UNCHANGED <<page, knowledgeVars, pendingVars, formVars, csvFile,
                   deleteVars, chatVars>>

\* The upload was redirected to the login page: return, through the finally
\* block.
UploadRedirect ==
    /\ Active
    /\ uploadPending > 0
    /\ uploadPending' = uploadPending - 1
    /\ page' = "login"
    /\ UploadFinally
    /\ UNCHANGED <<knowledgeVars, pendingVars, formVars, csvFile, deleteVars,
                   chatVars>>

\* The upload tab, and the reloads an upload starts.
NextUpload ==
    \/ SelectFile
    \/ UnselectFile
    \/ ClickUpload
    \/ UploadOk
    \/ UploadRejected
    \/ UploadRedirect
    \/ LoadOk
    \/ LoadRedirect
    \/ LoadNotJson
    \/ LoadFail
    \/ StatsOk
    \/ StatsRedirect
    \/ StatsDropped

SpecUpload == InitAdmin /\ [][NextUpload]_vars

\* C16: the upload button is enabled only while a file is selected and no
\* upload is in flight: whenever it is enabled the file input holds a file,
\* and it is disabled from the upload click until the response is handled.
C16_UploadButtonEnabledOnlyWithFile ==
    Active => /\ ~uploadDisabled => csvFile
              /\ uploadPending > 0 => uploadDisabled

\* -------------------------------------------------------- the delete modal
\* openDeleteModal(id), from the delete button of a shown entry; an open
\* modal is the click target in front of the list (window.onclick).
OpenDeleteModal ==
    /\ Active
    /\ ~deleteModal
    /\ \E id \in ShownIds : deleteId' = id
    /\ deleteModal' = TRUE
    /\ UNCHANGED <<page, knowledgeVars, pendingVars, formVars, uploadVars,
                   deletePending, chatVars>>

\* closeDeleteModal, from the cancel button or a click outside the modal.
CloseDeleteModal ==
    /\ Active
    /\ deleteModal
    /\ deleteModal' = FALSE
    /\ deleteId' = 0
    /\ UNCHANGED <<page, knowledgeVars, pendingVars, formVars, uploadVars,
                   deletePending, chatVars>>

\* The DELETE requests in flight.
DeletesInFlight ==
    LET RECURSIVE Sum(_)
        Sum(ids) == IF ids = {} THEN 0
                    ELSE LET id == CHOOSE x \in ids : TRUE
                         IN deletePending[id] + Sum(ids \ {id})
    IN Sum(EntryIds)

\* confirmDelete up to its fetch: no request without a pending id.
ConfirmDelete ==
    /\ Active
    /\ deleteId # 0
    /\ DeletesInFlight < MaxPending
    /\ deletePending' = [deletePending EXCEPT ![deleteId] = @ + 1]
    /\ UNCHANGED <<page, knowledgeVars, pendingVars, formVars, uploadVars,
                   deleteId, deleteModal, chatVars>>

\* The DELETE for entry a succeeded: closeDeleteModal(), whatever the pending
\* id is by now, then list and statistics are reloaded.
DeleteOk(a) ==
    /\ Active
    /\ deletePending[a] > 0
    /\ CanReload
    /\ deletePending' = [deletePending EXCEPT ![a] = @ - 1]
    /\ deleteModal' = FALSE
    /\ deleteId' = 0
    /\ Reload
    /\ UNCHANGED <<page, knowledgeVars, formVars, uploadVars, chatVars>>

\* The DELETE for entry a was answered not ok, or rejected: an alert only.
DeleteRejected(a) ==
    /\ Active
    /\ deletePending[a] > 0
    /\ deletePending' = [deletePending EXCEPT ![a] = @ - 1]
    /\ UNCHANGED <<page, knowledgeVars, pendingVars, formVars, uploadVars,
                   deleteId, deleteModal, chatVars>>

\* The DELETE for entry a was redirected to the login page.
DeleteRedirect(a) ==
    /\ Active
    /\ deletePending[a] > 0
    /\ deletePending' = [deletePending EXCEPT ![a] = @ - 1]
    /\ page' = "login"
    /\ UNCHANGED <<knowledgeVars, pendingVars, formVars, uploadVars, deleteId,
                   deleteModal, chatVars>>

\* The delete modal, and the list whose buttons open it.
NextDelete ==
    \/ OpenDeleteModal
    \/ CloseDeleteModal
    \/ ConfirmDelete
    \/ \E a \in EntryIds :
          \/ DeleteOk(a)
          \/ DeleteRejected(a)
          \/ DeleteRedirect(a)
    \/ LoadOk
    \/ LoadRedirect
    \/ LoadNotJson
    \/ LoadFail
    \/ StatsOk
    \/ StatsRedirect
    \/ StatsDropped

SpecDelete == InitAdmin /\ [][NextDelete]_vars

\* C17: confirmDelete sends a DELETE only for the pending id, and the
\* pending state is cleared only for the entry that was deleted: a step that
\* handles the response to the request for entry a either leaves deleteId
\* and the modal unchanged, or a is still the pending id and the step resets
\* deleteId and hides the modal, also when the modal was closed and opened
\* for another entry while the request was in flight.
C17_PendingClearedOnlyForDeleted ==
    [][\A a \in EntryIds :
          /\ deletePending'[a] > deletePending[a] => deleteId = a
          /\ deletePending'[a] < deletePending[a]
                => \/ deleteId' = deleteId /\ deleteModal' = deleteModal
                   \/ deleteId = a /\ deleteId' = 0 /\ deleteModal' = FALSE]_vars

====
